---- MODULE Spec2Model ----
(***************************************************************************)
(* Model of apps/backend/routes/youtube-downloader.js for one download id. *)
(*                                                                         *)
(* The state is what the route handlers, the DownloadManager objects and   *)
(* the per-request pipelines (ffmpeg process, source streams, temp file    *)
(* write stream, progress tracker) hold, plus the two files of the id in   *)
(* TEMP_DIR.  A handler is cut at every await that waits for I/O; awaits   *)
(* of promises that are already settled (cleanup(), cancel(), complete(),  *)
(* resume() on a fresh manager) run in the same step.  A metadata write    *)
(* (fs.writeFile) is issued when saveDownloadMetadata is called, with the  *)
(* JSON taken at that moment, and lands later; writes that are pending at  *)
(* the same time land in any order, because the code never serialises      *)
(* them.                                                                   *)
(*                                                                         *)
(* Fields of the metadata object that no code path reads back (title,      *)
(* filename, lastModified, completedAt, finalSize) are left out.           *)
(***************************************************************************)
EXTENDS Integers, Sequences, FiniteSets, TLC

\* ------------------------------------------------------------- bounds
MaxReq == 4        \* HTTP requests that arrive in one behaviour
MaxMgr == 2        \* DownloadManager objects constructed in one behaviour
OutLen == 3        \* bytes of the engine's complete output O = <<1, .., OutLen>>
MaxSrcLen == 3     \* largest contentLength the provider reports for a format
MaxPending == 2    \* metadata writes in flight at once

Reqs == 1..MaxReq
Mgrs == 1..MaxMgr

\* The engine is deterministic: every run emits the same bytes.
O == [i \in 1..OutLen |-> i]

Unknown == 0       \* a format without contentLength

VARIABLES
  meta,            \* <id>.meta.json: a record, or NoRec when the file is absent
  temp,            \* <id>.tmp: [exists, bytes]
  pending,         \* metadata writes issued and not yet landed
  instances,       \* DownloadManager.instances.get(id): a manager, or 0
  activeDownloads, \* activeDownloads.get(id): a manager, or 0
  timer,           \* DownloadManager.instanceCleanup.has(id)
  mgrs,            \* the DownloadManager objects
  pipes,           \* one pipeline per request that started one
  reqs,            \* the requests: handler position, locals, response
  nextReq,         \* requests arrived so far
  nextMgr,         \* managers constructed so far
  sweep,           \* position of the reaper's sweep of the id
  shutdown         \* the server process: "up", "term" after SIGTERM, "exited"

vars == <<meta, temp, pending, instances, activeDownloads, timer, mgrs, pipes,
          reqs, nextReq, nextMgr, sweep, shutdown>>

\* ------------------------------------------------------------- records
NoRec == [status |-> "none", totalSize |-> 0, currentSize |-> 0]

NoMgr == [isPaused |-> FALSE, isCompleted |-> FALSE, isCancelled |-> FALSE,
          currentSize |-> 0, res |-> 0, metadata |-> NoRec]

NoPipe == [kind |-> "none", mgr |-> 0, proc |-> "none", signalled |-> FALSE,
           code |-> 0, streamsOpen |-> FALSE, hOpen |-> FALSE, hAtt |-> FALSE,
           pos |-> 0, avail |-> 0, consumed |-> 0, bytesDownloaded |-> 0,
           chunkSize |-> 0, existingSize |-> 0, trk |-> "none",
           needDrain |-> FALSE, exitH |-> "idle", endH |-> "idle",
           grace |-> "none", sigkill |-> FALSE, base |-> 0,
           starved |-> FALSE, failure |-> "none"]

NoSweep == [pc |-> "idle", age |-> 0]

NoReq == [kind |-> "none", pc |-> "idle", urlOk |-> TRUE, existingSize |-> 0,
          md |-> NoRec, m |-> 0, resp |-> 0, headersSent |-> FALSE,
          ended |-> FALSE, sink |-> <<>>, closed |-> FALSE, onClose |-> {},
          heard |-> {}, replayed |-> 0,
          type |-> "none", videoSize |-> 0, audioSize |-> 0, progress |-> 0]

\* ------------------------------------------------------------- files
\* getFileSize: the size of the temp file, 0 when stat fails.
getFileSize == IF temp.exists THEN Len(temp.bytes) ELSE 0

\* The file while an fs.writeFile has truncated it and not yet written the
\* JSON: it exists and does not parse.
Torn == [status |-> "torn", totalSize |-> 0, currentSize |-> 0]

\* loadDownloadMetadata: the parsed record, null (NoRec) when the read or
\* JSON.parse fails.
loadDownloadMetadata == IF meta = Torn THEN NoRec ELSE meta

\* A pending write of owner w (a handler waiting for it, or "data").
Write(owner, rec) == [owner |-> owner, rec |-> rec]

saveDownloadMetadata(owner, rec) == pending \cup {Write(owner, rec)}

Landed(owner) == \A w \in pending : w.owner # owner

CanSave == Cardinality(pending) < MaxPending

\* A write of chunk c at offset p (flags 'w': the stream keeps its own
\* position; a hole left by a truncation reads as 0 bytes).
Pad(bytes, n) == bytes \o [i \in 1..(n - Len(bytes)) |-> 0]

WriteAt(bytes, p, c) ==
  LET base == Pad(bytes, p)
      n == IF Len(base) > p + Len(c) THEN Len(base) ELSE p + Len(c)
  IN [i \in 1..n |-> IF i > p /\ i <= p + Len(c) THEN c[i - p] ELSE base[i]]

\* tempFileStream.write(chunk) on the handle of pipeline q.
FileAfterWrite(q, c) ==
  IF q = 0 \/ ~pipes[q].hOpen \/ ~pipes[q].hAtt THEN temp
  ELSE IF pipes[q].kind = "fresh"
       THEN [temp EXCEPT !.bytes = WriteAt(temp.bytes, pipes[q].pos, c)]
       ELSE [temp EXCEPT !.bytes = temp.bytes \o c]

\* ------------------------------------------------------------- managers
\* The registry maps, the managers and the pipelines, threaded through the
\* synchronous calls of one step.
Cur == [inst |-> instances, act |-> activeDownloads, ms |-> mgrs, ps |-> pipes]

Install(S) ==
  /\ instances' = S.inst
  /\ activeDownloads' = S.act
  /\ mgrs' = S.ms
  /\ pipes' = S.ps

\* stream.destroy() on every source stream, tempFileStream.end(), and
\* ffmpeg.kill('SIGTERM'), which reaches a process whose 'exit' event has
\* not been delivered yet.  With ffmpeg.killed still false the 1000 ms
\* timer of the forcible kill is set.
ReleasedPipe(p) ==
  [p EXCEPT !.streamsOpen = FALSE, !.hOpen = FALSE,
            !.signalled = (p.signalled \/ p.proc \in {"running", "dead"}),
            !.grace = IF p.signalled THEN p.grace ELSE "armed"]

\* DownloadManager.cleanup(downloadId) (static): true when the id was registered.
staticCleanup(S) == S.inst # 0

\* manager.cleanup(): unregisters whatever is registered under the id; when
\* nothing was registered it returns early; otherwise it releases the
\* resources this manager's fields hold and clears the fields.
cleanup(S, m) ==
  IF ~staticCleanup(S) THEN S
  ELSE LET q == S.ms[m].res
       IN [inst |-> 0, act |-> 0,
           ms |-> [S.ms EXCEPT ![m].res = 0],
           ps |-> IF q # 0 THEN [S.ps EXCEPT ![q] = ReleasedPipe(S.ps[q])]
                  ELSE S.ps]

\* A variant that sets the flag and does not clean up.
cancelFlagOnly(S, m) == [S EXCEPT !.ms[m].isCancelled = TRUE]

\* manager.cancel()
cancel(S, m) == cleanup([S EXCEPT !.ms[m].isCancelled = TRUE], m)

\* manager.complete()
complete(S, m) ==
  cleanup([S EXCEPT !.ms[m].isCompleted = TRUE,
                    !.ms[m].metadata.status = "completed"], m)

\* DownloadManager.getInstance: the registered manager, or a new one, which
\* the constructor gives a reaper timer.
CanGetInstance == instances # 0 \/ nextMgr < MaxMgr

getInstance == IF instances # 0 THEN instances ELSE nextMgr + 1

AfterGetInstance(S, md) ==
  IF S.inst # 0 THEN S
  ELSE [S EXCEPT !.inst = nextMgr + 1,
                 !.ms[nextMgr + 1] = [NoMgr EXCEPT !.metadata = md]]

nextMgrAfterGetInstance == IF instances # 0 THEN nextMgr ELSE nextMgr + 1

timerAfterGetInstance == IF instances # 0 THEN timer ELSE TRUE

\* ------------------------------------------------------------- sizes
\* The size estimate of the start route (parseInt of contentLength, 0 when
\* the format has none).
totalContentLength(type, videoLen, audioLen) ==
  IF type = "video" THEN videoLen + audioLen ELSE audioLen

SrcLens == {Unknown} \cup (1..MaxSrcLen)

\* ------------------------------------------------------------- pipelines
\* A new pipeline; base is the size of the temp file as its write stream is
\* opened (0 with flags 'w', the end of the file with flags 'a').
NewPipe(kind, m, existingSize) ==
  [NoPipe EXCEPT !.kind = kind, !.mgr = m, !.proc = "running",
                 !.streamsOpen = TRUE, !.hOpen = TRUE, !.hAtt = TRUE,
                 !.avail = OutLen, !.bytesDownloaded = existingSize,
                 !.existingSize = existingSize, !.trk = "open",
                 !.base = IF kind = "resume" THEN getFileSize ELSE 0]

\* startCompleteDownloadProcess, up to the registration of the handlers:
\* the temp file is opened with flags 'w', the source streams are opened and
\* ffmpeg is spawned; the manager's fields now hold this pipeline's resources.
startCompleteDownloadProcess(S, m, r) ==
  [S EXCEPT !.ps[r] = NewPipe("fresh", m, 0), !.ms[m].res = r]

\* startResumeDownloadProcess: the same with flags 'a' and the byte counter
\* started at existingSize.
startResumeDownloadProcess(S, m, r, existingSize) ==
  [S EXCEPT !.ps[r] = NewPipe("resume", m, existingSize), !.ms[m].res = r]

Truncated == [exists |-> TRUE, bytes |-> <<>>]

OpenedForAppend == [exists |-> TRUE, bytes |-> IF temp.exists THEN temp.bytes ELSE <<>>]

\* ------------------------------------------------------------- responses
Reply(q, code) ==
  [q EXCEPT !.pc = "done", !.resp = code, !.headersSent = TRUE, !.ended = TRUE]

\* res.write(bytes): the client receives them while it is connected.
Written(q, bytes) ==
  [q EXCEPT !.headersSent = TRUE,
            !.sink = IF q.closed \/ q.ended THEN q.sink ELSE q.sink \o bytes]

\* ------------------------------------------------------------- GET /download
\* A variant that starts the reaper timers before it validates the url.
StartArriveTimersFirst ==
  \E ok \in BOOLEAN :
    /\ nextReq < MaxReq
    /\ nextReq' = nextReq + 1
    /\ timer' = TRUE
    /\ reqs' = [reqs EXCEPT ![nextReq + 1] =
                  IF ok THEN [NoReq EXCEPT !.kind = "start", !.pc = "getFileSize"]
                  ELSE Reply([NoReq EXCEPT !.kind = "start", !.urlOk = FALSE], 400)]
    /\ UNCHANGED <<shutdown, sweep, meta, temp, pending, instances, activeDownloads, mgrs,
                   pipes, nextMgr>>

\* The request arrives; a missing or invalid url is answered 400 at once.
StartArrive ==
  \E ok \in BOOLEAN :
    /\ nextReq < MaxReq
    /\ nextReq' = nextReq + 1
    /\ reqs' = [reqs EXCEPT ![nextReq + 1] =
                  IF ok THEN [NoReq EXCEPT !.kind = "start", !.pc = "getFileSize"]
                  ELSE Reply([NoReq EXCEPT !.kind = "start", !.urlOk = FALSE], 400)]
    /\ UNCHANGED <<shutdown, sweep, meta, temp, pending, instances, activeDownloads, timer, mgrs,
                   pipes, nextMgr>>

\* After getFileSize: a fresh start goes on to the conflict check, a start
\* over a non-empty temp file first loads the record.
StartSized(r) ==
  /\ reqs[r].kind = "start" /\ reqs[r].pc = "getFileSize"
  /\ reqs' = [reqs EXCEPT ![r] =
       IF getFileSize > 0
       THEN [@ EXCEPT !.existingSize = getFileSize, !.pc = "loadMetadata"]
       ELSE IF activeDownloads # 0 THEN Reply(@, 409)
       ELSE [@ EXCEPT !.pc = "getInfo"]]
  /\ UNCHANGED <<shutdown, sweep, meta, temp, pending, instances, activeDownloads, timer, mgrs,
                 pipes, nextReq, nextMgr>>

\* After loadDownloadMetadata: 404 without a record, then the conflict check.
StartLoaded(r) ==
  /\ reqs[r].kind = "start" /\ reqs[r].pc = "loadMetadata"
  /\ reqs' = [reqs EXCEPT ![r] =
       IF loadDownloadMetadata = NoRec THEN Reply(@, 404)
       ELSE IF activeDownloads # 0 THEN Reply(@, 409)
       ELSE [@ EXCEPT !.md = loadDownloadMetadata, !.pc = "getInfo"]]
  /\ UNCHANGED <<shutdown, sweep, meta, temp, pending, instances, activeDownloads, timer, mgrs,
                 pipes, nextReq, nextMgr>>

\* After ytdl.getInfo: a provider failure is answered 500; otherwise the
\* record is created (or set back to in progress) and saved.  Types and Lens
\* say which requests and which provider answers occur.
StartInfoFails(r) ==
  /\ reqs[r].kind = "start" /\ reqs[r].pc = "getInfo"
  /\ reqs' = [reqs EXCEPT ![r] = Reply(@, 500)]
  /\ UNCHANGED <<shutdown, sweep, meta, temp, pending, instances, activeDownloads, timer, mgrs,
                 pipes, nextReq, nextMgr>>

StartInfo(r, Types, Lens) ==
  \E type \in Types, videoLen \in Lens, audioLen \in Lens :
    LET md == IF reqs[r].md = NoRec
              THEN [status |-> "in progress",
                    totalSize |-> totalContentLength(type, videoLen, audioLen),
                    currentSize |-> reqs[r].existingSize]
              ELSE [reqs[r].md EXCEPT !.status = "in progress"]
    IN /\ reqs[r].kind = "start" /\ reqs[r].pc = "getInfo"
       /\ CanSave
       /\ pending' = saveDownloadMetadata(<<"req", r>>, md)
       /\ reqs' = [reqs EXCEPT ![r].md = md, ![r].pc = "save", ![r].type = type,
                               ![r].videoSize = IF type = "video" THEN videoLen ELSE 0,
                               ![r].audioSize = audioLen]
       /\ UNCHANGED <<shutdown, sweep, meta, temp, instances, activeDownloads, timer, mgrs,
                      pipes, nextReq, nextMgr>>

\* After the save: the session is registered, the close handlers are
\* attached, and a fresh start builds its pipeline at once.
StartSaved(r) ==
  LET m == getInstance
      S1 == [AfterGetInstance(Cur, reqs[r].md) EXCEPT !.act = m]
      fresh == reqs[r].existingSize = 0
  IN /\ reqs[r].kind = "start" /\ reqs[r].pc = "save"
     /\ Landed(<<"req", r>>)
     /\ CanGetInstance
     /\ nextMgr' = nextMgrAfterGetInstance
     /\ timer' = timerAfterGetInstance
     /\ reqs' = [reqs EXCEPT ![r].m = m, ![r].resp = 200,
                             ![r].onClose = {"closure"},
                             ![r].pc = IF fresh THEN "streaming" ELSE "readFile"]
     /\ Install(IF fresh THEN startCompleteDownloadProcess(S1, m, r) ELSE S1)
     /\ temp' = IF fresh THEN Truncated ELSE temp
     /\ UNCHANGED <<shutdown, sweep, meta, pending, nextReq>>

\* After fs.readFile of the temp file: the existing bytes are written to
\* the response and the resume pipeline is built; when the file is gone the
\* catch block cleans up and answers 500.
StartRead(r) ==
  LET m == reqs[r].m
  IN /\ reqs[r].kind = "start" /\ reqs[r].pc = "readFile"
     /\ IF ~temp.exists
        THEN /\ Install(cleanup(Cur, m))
             /\ reqs' = [reqs EXCEPT ![r] = Reply(@, 500)]
             /\ temp' = temp
        ELSE /\ Install(startResumeDownloadProcess(Cur, m, r, reqs[r].existingSize))
             /\ reqs' = [reqs EXCEPT ![r] =
                  [Written(@, temp.bytes) EXCEPT !.pc = "streaming",
                                                 !.replayed = Len(temp.bytes)]]
             /\ temp' = OpenedForAppend
     /\ UNCHANGED <<shutdown, sweep, meta, pending, timer, nextReq, nextMgr>>

\* ------------------------------------------------------------- GET /download/resume/:id
Arrive(kind, pc) ==
  /\ nextReq < MaxReq
  /\ nextReq' = nextReq + 1
  /\ reqs' = [reqs EXCEPT ![nextReq + 1] = [NoReq EXCEPT !.kind = kind, !.pc = pc]]

ResumeArrive ==
  /\ Arrive("resume", "loadMetadata")
  /\ UNCHANGED <<shutdown, sweep, meta, temp, pending, instances, activeDownloads, timer, mgrs,
                 pipes, nextMgr>>

\* A variant without the check of activeDownloads.
ResumeLoadedUnchecked(r) ==
  /\ reqs[r].kind = "resume" /\ reqs[r].pc = "loadMetadata"
  /\ reqs' = [reqs EXCEPT ![r] =
       IF loadDownloadMetadata = NoRec THEN Reply(@, 404)
       ELSE IF loadDownloadMetadata.status # "paused" THEN Reply(@, 400)
       ELSE [@ EXCEPT !.md = loadDownloadMetadata, !.pc = "getFileSize"]]
  /\ UNCHANGED <<shutdown, sweep, meta, temp, pending, instances, activeDownloads, timer, mgrs,
                 pipes, nextReq, nextMgr>>

\* After loadDownloadMetadata: 404 without a record, 400 unless it reads
\* paused, 409 when the id is active.
ResumeLoaded(r) ==
  /\ reqs[r].kind = "resume" /\ reqs[r].pc = "loadMetadata"
  /\ reqs' = [reqs EXCEPT ![r] =
       IF loadDownloadMetadata = NoRec THEN Reply(@, 404)
       ELSE IF loadDownloadMetadata.status # "paused" THEN Reply(@, 400)
       ELSE IF activeDownloads # 0 THEN Reply(@, 409)
       ELSE [@ EXCEPT !.md = loadDownloadMetadata, !.pc = "getFileSize"]]
  /\ UNCHANGED <<shutdown, sweep, meta, temp, pending, instances, activeDownloads, timer, mgrs,
                 pipes, nextReq, nextMgr>>

\* manager.resume(): does something only on a manager whose isPaused is set.
resumeActs(S, m) == S.ms[m].isPaused /\ ~S.ms[m].isCompleted

resume(S, m) ==
  IF resumeActs(S, m)
  THEN [S EXCEPT !.ms[m].isPaused = FALSE, !.ms[m].metadata.status = "in progress"]
  ELSE S

\* After getFileSize: the headers are set and the first close handler is
\* attached.  A temp file that already holds totalSize bytes is piped to
\* the response as it is; otherwise resumeDownloadProcess gets the manager,
\* calls resume() and registers it in activeDownloads.
ResumeSized(r) ==
  LET es == getFileSize
      md == reqs[r].md
      whole == es > 0 /\ md.totalSize # 0 /\ es >= md.totalSize
      m == getInstance
      S1 == AfterGetInstance(Cur, md)
      acts == resumeActs(S1, m)
      S2 == resume(S1, m)
      q1 == [reqs[r] EXCEPT !.existingSize = es, !.resp = 200,
                            !.onClose = {"lookup"}]
  IN /\ reqs[r].kind = "resume" /\ reqs[r].pc = "getFileSize"
     /\ IF whole
        THEN /\ reqs' = [reqs EXCEPT ![r] =
                  [Written(q1, temp.bytes) EXCEPT !.ended = TRUE, !.pc = "done",
                                                  !.replayed = Len(temp.bytes)]]
             /\ UNCHANGED <<shutdown, sweep, pending, instances, activeDownloads, timer, mgrs,
                            pipes, nextMgr>>
        ELSE /\ CanGetInstance
             /\ acts => CanSave
             /\ nextMgr' = nextMgrAfterGetInstance
             /\ timer' = timerAfterGetInstance
             /\ reqs' = [reqs EXCEPT ![r] =
                  [q1 EXCEPT !.m = m,
                             !.pc = IF acts THEN "resumeSave" ELSE "getInfo"]]
             /\ Install(IF acts THEN S2 ELSE [S2 EXCEPT !.act = m])
             /\ pending' = IF acts
                           THEN saveDownloadMetadata(<<"req", r>>, S2.ms[m].metadata)
                           ELSE pending
     /\ UNCHANGED <<shutdown, sweep, meta, temp, nextReq>>

\* After the save made by resume().
ResumeResumed(r) ==
  /\ reqs[r].kind = "resume" /\ reqs[r].pc = "resumeSave"
  /\ Landed(<<"req", r>>)
  /\ activeDownloads' = reqs[r].m
  /\ reqs' = [reqs EXCEPT ![r].pc = "getInfo"]
  /\ UNCHANGED <<shutdown, sweep, meta, temp, pending, instances, timer, mgrs, pipes, nextReq,
                 nextMgr>>

\* After ytdl.getInfo: a provider failure is answered 500 and nothing is
\* cleaned up; otherwise the second close handler is attached and the
\* resume pipeline is built.
ResumeInfoFails(r) ==
  /\ reqs[r].kind = "resume" /\ reqs[r].pc = "getInfo"
  /\ reqs' = [reqs EXCEPT ![r] = Reply(@, 500)]
  /\ UNCHANGED <<shutdown, sweep, meta, temp, pending, instances, activeDownloads, timer, mgrs,
                 pipes, nextReq, nextMgr>>

ResumeInfo(r) ==
  /\ reqs[r].kind = "resume" /\ reqs[r].pc = "getInfo"
  /\ reqs' = [reqs EXCEPT ![r].pc = "streaming",
                          ![r].onClose = @ \cup {"closure"}]
  /\ Install(startResumeDownloadProcess(Cur, reqs[r].m, r, reqs[r].existingSize))
  /\ temp' = OpenedForAppend
  /\ UNCHANGED <<shutdown, sweep, meta, pending, timer, nextReq, nextMgr>>

\* ------------------------------------------------------------- POST /download/pause/:id
PauseArrive ==
  /\ nextReq < MaxReq
  /\ nextReq' = nextReq + 1
  /\ reqs' = [reqs EXCEPT ![nextReq + 1] =
       IF activeDownloads = 0 THEN Reply([NoReq EXCEPT !.kind = "pause"], 404)
       ELSE [NoReq EXCEPT !.kind = "pause", !.pc = "loadMetadata"]]
  /\ UNCHANGED <<shutdown, sweep, meta, temp, pending, instances, activeDownloads, timer, mgrs,
                 pipes, nextMgr>>

\* After loadDownloadMetadata: 404 without a record, 400 unless it reads
\* in progress; then the manager is fetched with getInstance.
PauseLoaded(r) ==
  LET md == loadDownloadMetadata
      go == md # NoRec /\ md.status = "in progress"
  IN /\ reqs[r].kind = "pause" /\ reqs[r].pc = "loadMetadata"
     /\ go => CanGetInstance
     /\ reqs' = [reqs EXCEPT ![r] =
          IF md = NoRec THEN Reply(@, 404)
          ELSE IF md.status # "in progress" THEN Reply(@, 400)
          ELSE [@ EXCEPT !.md = md, !.m = getInstance, !.pc = "getFileSize"]]
     /\ Install(IF go THEN AfterGetInstance(Cur, md) ELSE Cur)
     /\ nextMgr' = IF go THEN nextMgrAfterGetInstance ELSE nextMgr
     /\ timer' = IF go THEN timerAfterGetInstance ELSE timer
     /\ UNCHANGED <<shutdown, sweep, meta, temp, pending, nextReq>>

\* A variant that pauses a paused manager again.
pauseActsAgain(m) == ~mgrs[m].isCompleted

\* manager.pause(), up to its save: returns at once on a manager that is
\* already paused or completed.
pauseActs(m) == ~mgrs[m].isPaused /\ ~mgrs[m].isCompleted

\* After getFileSize: currentSize is set from the file and pause() runs.
PauseSized(r) ==
  LET m == reqs[r].m
      md == [mgrs[m].metadata EXCEPT !.status = "paused",
                                     !.currentSize = getFileSize]
  IN /\ reqs[r].kind = "pause" /\ reqs[r].pc = "getFileSize"
     /\ IF pauseActs(m)
        THEN /\ CanSave
             /\ mgrs' = [mgrs EXCEPT ![m].currentSize = getFileSize,
                                     ![m].isPaused = TRUE,
                                     ![m].metadata = md]
             /\ pending' = saveDownloadMetadata(<<"req", r>>, md)
             /\ reqs' = [reqs EXCEPT ![r].pc = "save"]
        ELSE /\ mgrs' = [mgrs EXCEPT ![m].currentSize = getFileSize]
             /\ pending' = pending
             /\ reqs' = [reqs EXCEPT ![r] = Reply(@, 200)]
     /\ UNCHANGED <<shutdown, sweep, meta, temp, instances, activeDownloads, timer, pipes,
                    nextReq, nextMgr>>

\* After the save: pause() calls cleanup() and the route answers success.
PauseSaved(r) ==
  /\ reqs[r].kind = "pause" /\ reqs[r].pc = "save"
  /\ Landed(<<"req", r>>)
  /\ Install(cleanup(Cur, reqs[r].m))
  /\ reqs' = [reqs EXCEPT ![r] = Reply(@, 200)]
  /\ UNCHANGED <<shutdown, sweep, meta, temp, pending, timer, nextReq, nextMgr>>

\* ------------------------------------------------------------- DELETE /download/:id
\* Without a registered manager the route only unlinks the files; otherwise
\* it drops the activeDownloads entry and loads the record.
DeleteArrive ==
  /\ Arrive("delete", IF instances = 0 THEN "unlink" ELSE "loadMetadata")
  /\ activeDownloads' = IF instances = 0 THEN activeDownloads ELSE 0
  /\ UNCHANGED <<shutdown, sweep, meta, temp, pending, instances, timer, mgrs, pipes, nextMgr>>

\* After loadDownloadMetadata: the manager is fetched and cancelled, and
\* cleanupTempFiles is started.
DeleteLoaded(r) ==
  LET m == getInstance
  IN /\ reqs[r].kind = "delete" /\ reqs[r].pc = "loadMetadata"
     /\ CanGetInstance
     /\ Install(cancel(AfterGetInstance(Cur, loadDownloadMetadata), m))
     /\ nextMgr' = nextMgrAfterGetInstance
     /\ timer' = timerAfterGetInstance
     /\ reqs' = [reqs EXCEPT ![r].m = m, ![r].pc = "unlink"]
     /\ UNCHANGED <<shutdown, sweep, meta, temp, pending, nextReq>>

\* cleanupTempFiles: both files are unlinked; a write stream that was open
\* on the temp file keeps writing to the unlinked file.
Unlinked == [exists |-> FALSE, bytes |-> <<>>]

Detached(ps) == [p \in Reqs |-> [ps[p] EXCEPT !.hAtt = FALSE]]

DeleteUnlinked(r) ==
  /\ reqs[r].kind = "delete" /\ reqs[r].pc = "unlink"
  /\ meta' = NoRec
  /\ temp' = Unlinked
  /\ pipes' = Detached(pipes)
  /\ reqs' = [reqs EXCEPT ![r] = Reply(@, 200)]
  /\ UNCHANGED <<shutdown, sweep, pending, instances, activeDownloads, timer, mgrs, nextReq,
                 nextMgr>>

\* ------------------------------------------------------------- GET /download/status/:id
StatusArrive ==
  /\ Arrive("status", "loadMetadata")
  /\ UNCHANGED <<shutdown, sweep, meta, temp, pending, instances, activeDownloads, timer, mgrs,
                 pipes, nextMgr>>

\* A variant without the test for a missing record.
StatusLoadedUnchecked(r) ==
  /\ reqs[r].kind = "status" /\ reqs[r].pc = "loadMetadata"
  /\ reqs' = [reqs EXCEPT ![r] =
       [@ EXCEPT !.md = loadDownloadMetadata, !.pc = "getFileSize"]]
  /\ UNCHANGED <<shutdown, sweep, meta, temp, pending, instances, activeDownloads, timer, mgrs,
                 pipes, nextReq, nextMgr>>

\* After loadDownloadMetadata: 404 without a record.
StatusLoaded(r) ==
  /\ reqs[r].kind = "status" /\ reqs[r].pc = "loadMetadata"
  /\ reqs' = [reqs EXCEPT ![r] =
       IF loadDownloadMetadata = NoRec THEN Reply(@, 404)
       ELSE [@ EXCEPT !.md = loadDownloadMetadata, !.pc = "getFileSize"]]
  /\ UNCHANGED <<shutdown, sweep, meta, temp, pending, instances, activeDownloads, timer, mgrs,
                 pipes, nextReq, nextMgr>>

\* The percentage of the status reply: Math.round(currentSize / totalSize *
\* 100), which rounds a half upwards, and 0 when totalSize is 0.
progress(currentSize, totalSize) ==
  IF totalSize # 0
  THEN (200 * currentSize + totalSize) \div (2 * totalSize)
  ELSE 0

\* After getFileSize: the view of the record is sent.
StatusSized(r) ==
  /\ reqs[r].kind = "status" /\ reqs[r].pc = "getFileSize"
  /\ reqs' = [reqs EXCEPT ![r] =
       Reply([@ EXCEPT !.existingSize = getFileSize,
                       !.progress = progress(getFileSize, reqs[r].md.totalSize)],
             200)]
  /\ UNCHANGED <<shutdown, sweep, meta, temp, pending, instances, activeDownloads, timer, mgrs,
                 pipes, nextReq, nextMgr>>

\* ------------------------------------------------------------- the pipeline
Chunk(p, n) == [i \in 1..n |-> O[pipes[p].consumed + i]]

\* The 'data' handler of the tracker: what it stores in metadata.currentSize
\* and whether it saves.  Fresh pipeline: the length of this chunk.  Resume
\* pipeline: the running sum of the chunks of this attempt, once the sum has
\* reached existingSize.
dataCurrentSize(p, n) ==
  IF pipes[p].kind = "fresh" THEN n ELSE pipes[p].chunkSize + n

dataSaves(p, n) ==
  pipes[p].kind = "fresh" \/ pipes[p].chunkSize + n >= pipes[p].existingSize

\* ffmpeg's stdout delivers a chunk of n bytes to the progress tracker.  The
\* transform drops it when the manager is paused or cancelled; otherwise it
\* counts it, writes it to the manager's tempFileStream and to the response
\* and pushes it on, which runs the 'data' handler.  With tempFileStream
\* null the write throws inside the transform, whose callback is then never
\* called: the tracker takes no further chunk and never ends.  A chunk of
\* at least the tracker's highWaterMark (big) makes it emit 'drain' later;
\* Bigs says which kinds of chunk the engine produces.
EngineChunk(p, Bigs) ==
  \E n \in 1..OutLen, big \in Bigs :
    LET m == pipes[p].mgr
        q == mgrs[m].res
        c == Chunk(p, n)
        dropped == mgrs[m].isPaused \/ mgrs[m].isCancelled
        saves == ~dropped /\ q # 0 /\ dataSaves(p, n)
        md == [mgrs[m].metadata EXCEPT !.currentSize = dataCurrentSize(p, n)]
        p1 == [pipes[p] EXCEPT !.consumed = @ + n,
                               !.needDrain = @ \/ big,
                               !.bytesDownloaded = IF dropped THEN @ ELSE @ + n,
                               !.chunkSize = IF dropped \/ q = 0 THEN @ ELSE @ + n,
                               !.trk = IF ~dropped /\ q = 0 THEN "stuck" ELSE @]
        ps1 == [pipes EXCEPT ![p] = p1]
        written == ~dropped /\ q # 0 /\ ps1[q].hOpen /\ ps1[q].kind = "fresh"
    IN /\ pipes[p].trk = "open"
       /\ pipes[p].consumed + n <= pipes[p].avail
       /\ saves => CanSave
       /\ pipes' = IF written THEN [ps1 EXCEPT ![q].pos = @ + n] ELSE ps1
       /\ mgrs' = [mgrs EXCEPT
            ![m].currentSize = IF dropped THEN @ ELSE pipes[p].bytesDownloaded + n,
            ![m].metadata = IF saves THEN md ELSE @]
       /\ temp' = IF dropped THEN temp ELSE FileAfterWrite(q, c)
       /\ reqs' = IF dropped \/ q = 0 THEN reqs
                  ELSE [reqs EXCEPT ![p] = Written(@, c)]
       /\ pending' = IF saves THEN saveDownloadMetadata(<<"data", p>>, md) ELSE pending
       /\ UNCHANGED <<shutdown, sweep, meta, instances, activeDownloads, timer, nextReq, nextMgr>>

\* The ffmpeg process ends with code 0, having written all of its output
\* to stdout (what has not been read yet will still be read).  Node has not
\* yet been told: until the 'exit' event kill() still reaches the process.
EngineDiesOk(p) ==
  /\ pipes[p].proc = "running"
  /\ ~pipes[p].signalled
  /\ ~pipes[p].starved
  /\ pipes' = [pipes EXCEPT ![p].proc = "dead", ![p].code = 0]
  /\ UNCHANGED <<shutdown, sweep, meta, temp, pending, instances, activeDownloads, timer, mgrs,
                 reqs, nextReq, nextMgr>>

\* The ffmpeg process ends with another code (a failure, or the signal took
\* effect); what it had not yet written is lost.
EngineDiesFail(p) ==
  \E a \in 0..OutLen :
    /\ pipes[p].proc = "running"
    /\ pipes[p].consumed <= a /\ a <= pipes[p].avail
    /\ pipes' = [pipes EXCEPT ![p].proc = "dead", ![p].code = 1, ![p].avail = a,
                              ![p].failure = IF pipes[p].signalled THEN @ ELSE "exit"]
    /\ UNCHANGED <<shutdown, sweep, meta, temp, pending, instances, activeDownloads, timer, mgrs,
                   reqs, nextReq, nextMgr>>

\* ffmpeg could not be spawned: no process exists and no 'exit' event will
\* come; ffmpeg.on('error') calls cleanup().  stdout ends with nothing read.
EngineError(p) ==
  LET m == pipes[p].mgr
      S0 == [Cur EXCEPT !.ps[p].proc = "exited", !.ps[p].code = 1,
                        !.ps[p].avail = 0, !.ps[p].failure = "spawn"]
  IN /\ pipes[p].proc = "running"
     /\ ~pipes[p].signalled
     /\ ~pipes[p].starved
     /\ pipes[p].consumed = 0
     /\ Install(cleanup(S0, m))
     /\ UNCHANGED <<shutdown, sweep, meta, temp, pending, timer, reqs, nextReq, nextMgr>>

\* A source stream emits 'error' and is destroyed; it feeds the engine no
\* more, and pipe() leaves the engine's input open, so the engine stops
\* after some a bytes of output and does not end by itself.  The resume
\* pipeline has a handler on each source stream, which calls cleanup(); the
\* fresh pipeline has none, and the exception of the unhandled 'error' event
\* goes to the process's uncaughtException handler, which logs it.
SourceError(p) ==
  \E a \in 0..OutLen :
    LET m == pipes[p].mgr
        S0 == [Cur EXCEPT !.ps[p].starved = TRUE, !.ps[p].avail = a,
                          !.ps[p].failure = "source"]
    IN /\ pipes[p].proc = "running"
       /\ pipes[p].streamsOpen
       /\ ~pipes[p].starved
       /\ pipes[p].consumed <= a /\ a <= pipes[p].avail
       /\ Install(IF pipes[p].kind = "resume" THEN cleanup(S0, m) ELSE S0)
       /\ UNCHANGED <<shutdown, sweep, meta, temp, pending, timer, reqs, nextReq, nextMgr>>

\* ffmpeg.on('exit'): with code 0 the handler marks the manager completed
\* and saves the record; with any other code it does nothing.
EngineExit(p) ==
  LET m == pipes[p].mgr
      ok == pipes[p].code = 0
      md == [mgrs[m].metadata EXCEPT !.status = "completed"]
  IN /\ pipes[p].proc = "dead"
     /\ ok => CanSave
     /\ pipes' = [pipes EXCEPT ![p].proc = "exited",
                               ![p].exitH = IF ok THEN "save" ELSE "done"]
     /\ mgrs' = IF ok THEN [mgrs EXCEPT ![m].isCompleted = TRUE, ![m].metadata = md]
                ELSE mgrs
     /\ pending' = IF ok THEN saveDownloadMetadata(<<"exit", p>>, md) ELSE pending
     /\ UNCHANGED <<shutdown, sweep, meta, temp, instances, activeDownloads, timer, reqs,
                    nextReq, nextMgr>>

\* ... and after the save has landed calls complete().
EngineExitSaved(p) ==
  /\ pipes[p].exitH = "save"
  /\ Landed(<<"exit", p>>)
  /\ Install([complete(Cur, pipes[p].mgr) EXCEPT !.ps[p].exitH = "done"])
  /\ UNCHANGED <<shutdown, sweep, meta, temp, pending, timer, reqs, nextReq, nextMgr>>

\* The tracker's 'drain' handler calls cleanup().
TrackerDrain(p) ==
  /\ pipes[p].trk = "open"
  /\ pipes[p].needDrain
  /\ Install([cleanup(Cur, pipes[p].mgr) EXCEPT !.ps[p].needDrain = FALSE])
  /\ UNCHANGED <<shutdown, sweep, meta, temp, pending, timer, reqs, nextReq, nextMgr>>

\* stdout has ended and the tracker has passed everything on: 'finish'
\* calls cleanup(), 'end' stores the byte count (fresh pipeline only) and
\* saves the record, 'close' calls cleanup() again.
TrackerEnd(p) ==
  LET m == pipes[p].mgr
      S1 == cleanup(Cur, m)
      md == IF pipes[p].kind = "fresh"
            THEN [mgrs[m].metadata EXCEPT !.currentSize = pipes[p].bytesDownloaded]
            ELSE mgrs[m].metadata
  IN /\ pipes[p].trk = "open"
     /\ pipes[p].proc \in {"dead", "exited"}
     /\ pipes[p].consumed = pipes[p].avail
     /\ CanSave
     /\ Install([S1 EXCEPT !.ps[p].trk = "ended", !.ps[p].endH = "save",
                           !.ps[p].needDrain = FALSE,
                           !.ms[m].metadata = md])
     /\ pending' = saveDownloadMetadata(<<"end", p>>, md)
     /\ UNCHANGED <<shutdown, sweep, meta, temp, timer, reqs, nextReq, nextMgr>>

\* ... and after the save has landed ends the manager's tempFileStream, if
\* the manager still holds one, and the response.
TrackerEndSaved(p) ==
  LET q == mgrs[pipes[p].mgr].res
  IN /\ pipes[p].endH = "save"
     /\ Landed(<<"end", p>>)
     /\ pipes' = [pipes EXCEPT ![p].endH = "done",
                               ![IF q = 0 THEN p ELSE q].hOpen =
                                 IF q = 0 THEN pipes[p].hOpen ELSE FALSE]
     /\ reqs' = [reqs EXCEPT ![p].ended = TRUE, ![p].headersSent = TRUE]
     /\ UNCHANGED <<shutdown, sweep, meta, temp, pending, instances, activeDownloads, timer,
                    mgrs, nextReq, nextMgr>>

\* The 1000 ms timer set by cleanup() for pipeline p fires.  Its callback
\* reads this.ffmpeg, the field of the manager as it is now: null after
\* cleanup() has cleared it, or the process of a pipeline built on the
\* manager since.  Only a process found there with killed false is sent
\* SIGKILL.
GraceExpires(p) ==
  LET q == mgrs[pipes[p].mgr].res
      hit == q # 0 /\ ~pipes[q].signalled /\ pipes[q].proc \in {"running", "dead"}
      ps1 == [pipes EXCEPT ![p].grace = "fired"]
  IN /\ pipes[p].grace = "armed"
     /\ pipes' = IF hit THEN [ps1 EXCEPT ![q].signalled = TRUE, ![q].sigkill = TRUE]
                 ELSE ps1
     /\ UNCHANGED <<shutdown, sweep, meta, temp, pending, instances, activeDownloads, timer,
                    mgrs, reqs, nextReq, nextMgr>>

\* ------------------------------------------------------------- the reaper
\* The retention window, and the ages a record can have when a sweep looks
\* at it, in units of 24 hours.
MAX_AGE == 1

Ages == 0..(MAX_AGE + 1)

\* The interval timer of the id fires: cleanupOldInstances takes the time
\* (age is what now - createdAt will come to) and starts to load the record.
SweepFires ==
  /\ timer
  /\ sweep.pc = "idle"
  /\ \E age \in Ages : sweep' = [pc |-> "load", age |-> age]
  /\ UNCHANGED <<shutdown, meta, temp, pending, instances, activeDownloads, timer, mgrs,
                 pipes, reqs, nextReq, nextMgr>>

\* A variant that cancels the registered session before it drops it.
SweepLoadedCancelling(S, age) ==
  IF age > MAX_AGE
  THEN IF S.inst # 0 THEN cancel(S, S.inst) ELSE [S EXCEPT !.act = 0]
  ELSE S

\* What the sweep does to the registry once the record is loaded: with
\* now - createdAt above MAX_AGE both maps lose the id, and nothing else is
\* touched.
SweepLoadedRegistry(S, age) ==
  IF age > MAX_AGE THEN [S EXCEPT !.inst = 0, !.act = 0] ELSE S

\* After loadDownloadMetadata.  Without a record the read of createdAt
\* throws and the sweep is over.  An old record has the id removed from the
\* maps, cleanupTempFiles started (not awaited) and the timer cleared and
\* dropped.
SweepLoaded ==
  LET found == loadDownloadMetadata # NoRec
      old == found /\ sweep.age > MAX_AGE
  IN /\ sweep.pc = "load"
     /\ sweep' = IF old THEN [sweep EXCEPT !.pc = "unlink"] ELSE NoSweep
     /\ Install(IF found THEN SweepLoadedRegistry(Cur, sweep.age) ELSE Cur)
     /\ timer' = IF old THEN FALSE ELSE timer
     /\ UNCHANGED <<shutdown, meta, temp, pending, reqs, nextReq, nextMgr>>

\* The unlinks of cleanupTempFiles take effect.
SweepUnlinked ==
  /\ sweep.pc = "unlink"
  /\ sweep' = NoSweep
  /\ meta' = NoRec
  /\ temp' = Unlinked
  /\ pipes' = Detached(pipes)
  /\ UNCHANGED <<shutdown, pending, instances, activeDownloads, timer, mgrs, reqs,
                 nextReq, nextMgr>>

Reaper ==
  \/ SweepFires
  \/ SweepLoaded
  \/ SweepUnlinked

\* ------------------------------------------------------------- signals
\* DownloadManager.destroyCleanupTimers(): clearInterval for the ids that are
\* registered; the interval of an id that is not registered is left running.
destroyCleanupTimers == IF instances # 0 THEN FALSE ELSE timer

\* manager.cleanup() up to its first await: the static cleanup has removed
\* the id from both maps, and the release of the streams, the file handle
\* and ffmpeg waits in a microtask.
cleanupUnregisters(S) == [S EXCEPT !.inst = 0, !.act = 0]

\* The SIGTERM handler: the timers are destroyed, cleanup() is called on the
\* registered manager and the map is cleared.  The handler returns, the
\* microtasks run and cleanup() releases the resources; the process goes on.
SIGTERM ==
  /\ shutdown = "up"
  /\ shutdown' = "term"
  /\ timer' = destroyCleanupTimers
  /\ Install(IF instances # 0 THEN cleanup(Cur, instances) ELSE Cur)
  /\ UNCHANGED <<meta, temp, pending, reqs, nextReq, nextMgr, sweep>>

\* The SIGINT handler: the same calls, followed by process.exit(0) before
\* any microtask has run: cleanup() has got as far as its first await.
SIGINT ==
  /\ shutdown = "up"
  /\ shutdown' = "exited"
  /\ timer' = destroyCleanupTimers
  /\ Install(IF instances # 0 THEN cleanupUnregisters(Cur) ELSE Cur)
  /\ UNCHANGED <<meta, temp, pending, reqs, nextReq, nextMgr, sweep>>

\* ------------------------------------------------------------- the disk
\* A pending fs.writeFile lands: the file now holds the JSON it was given
\* (and exists again if it had been unlinked).
WriteLands ==
  \E w \in pending :
    /\ meta' = w.rec
    /\ pending' = pending \ {w}
    /\ UNCHANGED <<shutdown, sweep, temp, instances, activeDownloads, timer, mgrs, pipes, reqs,
                   nextReq, nextMgr>>

\* fs.writeFile is not atomic: it opens the file with flag 'w', which
\* truncates it, and writes the JSON afterwards.  This is the first half of
\* a pending write; WriteLands is its completion.
WriteOpens ==
  /\ pending # {}
  /\ meta # Torn
  /\ meta' = Torn
  /\ UNCHANGED <<shutdown, temp, pending, instances, activeDownloads, timer, mgrs, pipes,
                 reqs, nextReq, nextMgr, sweep>>

\* ------------------------------------------------------------- the client
\* The connection of request r closes.  The handlers attached so far run:
\* the one the resume route attaches first cancels whatever manager
\* activeDownloads holds, the others cancel the manager of their request.
closeLookup(S, r) ==
  IF "lookup" \in reqs[r].onClose /\ S.act # 0 THEN cancel(S, S.act) ELSE S

closeClosure(S, r) ==
  IF "closure" \in reqs[r].onClose THEN cancel(S, reqs[r].m) ELSE S

ClientClose(r) ==
  /\ reqs[r].kind \in {"start", "resume"}
  /\ reqs[r].urlOk
  /\ ~reqs[r].closed
  /\ reqs' = [reqs EXCEPT ![r].closed = TRUE, ![r].heard = reqs[r].onClose]
  /\ Install(closeClosure(closeLookup(Cur, r), r))
  /\ UNCHANGED <<shutdown, sweep, meta, temp, pending, timer, nextReq, nextMgr>>

\* ------------------------------------------------------------- specification
Init ==
  /\ meta = NoRec
  /\ temp = [exists |-> FALSE, bytes |-> <<>>]
  /\ pending = {}
  /\ instances = 0
  /\ activeDownloads = 0
  /\ timer = FALSE
  /\ mgrs = [m \in Mgrs |-> NoMgr]
  /\ pipes = [r \in Reqs |-> NoPipe]
  /\ reqs = [r \in Reqs |-> NoReq]
  /\ nextReq = 0
  /\ nextMgr = 0
  /\ sweep = NoSweep
  /\ shutdown = "up"

\* No handler is between two awaits: every request that has arrived has been
\* answered or is streaming.
Quiet == \A r \in Reqs : reqs[r].pc \in {"idle", "done", "streaming"}

\* The steps of the start route: over an empty temp file, and over a
\* non-empty one.
StartFresh(Types, Lens) ==
  \/ \E r \in Reqs : StartSized(r)
  \/ \E r \in Reqs : StartInfo(r, Types, Lens)
  \/ \E r \in Reqs : StartSaved(r)

StartOver ==
  \/ \E r \in Reqs : StartLoaded(r)
  \/ \E r \in Reqs : StartRead(r)

ResumeRoute ==
  \/ \E r \in Reqs : ResumeLoaded(r)
  \/ \E r \in Reqs : ResumeSized(r)
  \/ \E r \in Reqs : ResumeInfo(r)

PauseRoute ==
  \/ \E r \in Reqs : PauseLoaded(r)
  \/ \E r \in Reqs : PauseSized(r)
  \/ \E r \in Reqs : PauseSaved(r)

DeleteRoute ==
  \/ \E r \in Reqs : DeleteLoaded(r)
  \/ \E r \in Reqs : DeleteUnlinked(r)

StatusRoute ==
  \/ \E r \in Reqs : StatusLoaded(r)
  \/ \E r \in Reqs : StatusSized(r)

\* A pipeline whose engine runs to the end of its output unless it is
\* signalled.
Engine(Bigs) ==
  \/ \E p \in Reqs : EngineChunk(p, Bigs)
  \/ \E p \in Reqs : EngineDiesOk(p)
  \/ \E p \in Reqs : EngineExit(p)
  \/ \E p \in Reqs : EngineExitSaved(p)
  \/ \E p \in Reqs : TrackerEnd(p)
  \/ \E p \in Reqs : TrackerEndSaved(p)

\* A signalled engine ends with a non-zero code.
Killed == \E p \in Reqs : pipes[p].signalled /\ EngineDiesFail(p)

\* An engine fails by itself.
Fails == \E p \in Reqs : ~pipes[p].signalled /\ EngineDiesFail(p)

\* ------------------------------------------------------------- specifications
\* One start request and its run, with no pause, cancel or disconnect.
NextRun ==
  \/ nextReq = 0 /\ StartArrive
  \/ StartFresh({"audio", "video"}, {Unknown, MaxSrcLen})
  \/ Engine({FALSE})
  \/ WriteLands

SpecRun == Init /\ [][NextRun]_vars

\* A start request, then a delete request, then a status query, each after
\* the handler before it has answered or begun to stream.
NextDelete ==
  \/ nextReq = 0 /\ StartArrive
  \/ nextReq = 1 /\ Quiet /\ DeleteArrive
  \/ nextReq = 2 /\ Quiet /\ StatusArrive
  \/ StartFresh({"audio"}, {Unknown})
  \/ DeleteRoute
  \/ StatusRoute
  \/ Engine({FALSE})
  \/ Killed
  \/ WriteLands

SpecDelete == Init /\ [][NextDelete]_vars

\* A start request, a pause request, then a resume or a second start.
NextResume ==
  \/ nextReq = 0 /\ StartArrive
  \/ nextReq = 1 /\ Quiet /\ PauseArrive
  \/ nextReq = 2 /\ Quiet /\ ResumeArrive
  \/ nextReq = 2 /\ Quiet /\ StartArrive
  \/ StartFresh({"audio"}, {Unknown})
  \/ StartOver
  \/ PauseRoute
  \/ ResumeRoute
  \/ Engine({FALSE})
  \/ Killed
  \/ WriteLands

SpecResume == Init /\ [][NextResume]_vars

\* Two start requests that arrive at any time.
NextPair ==
  \/ nextReq < 2 /\ StartArrive
  \/ StartFresh({"audio"}, {Unknown})
  \/ StartOver
  \/ Engine({FALSE})
  \/ WriteLands

SpecPair == Init /\ [][NextPair]_vars

\* Nothing is under way but pipelines that stream: no handler is between
\* two awaits, no write is in flight and no pipeline is being torn down.
Settled ==
  /\ Quiet
  /\ pending = {}
  /\ \A p \in Reqs :
        \/ pipes[p].proc = "none"
        \/ pipes[p].proc = "running" /\ ~pipes[p].signalled
        \/ /\ pipes[p].proc = "exited"
           /\ pipes[p].exitH # "save" /\ pipes[p].endH # "save"
           /\ pipes[p].trk # "open"

\* A start request, then further requests for the same id, each sent when
\* the server has settled: a pause or a resume, then a resume, then a resume,
\* a start or a pause.
NextConflict ==
  \/ nextReq = 0 /\ StartArrive
  \/ nextReq = 1 /\ Settled /\ PauseArrive
  \/ nextReq = 1 /\ Settled /\ ResumeArrive
  \/ nextReq = 2 /\ Settled /\ ResumeArrive
  \/ nextReq = 3 /\ Settled /\ ResumeArrive
  \/ nextReq = 3 /\ Settled /\ StartArrive
  \/ nextReq = 3 /\ Settled /\ PauseArrive
  \/ StartFresh({"audio"}, {Unknown})
  \/ StartOver
  \/ PauseRoute
  \/ ResumeRoute
  \/ Engine({FALSE})
  \/ Killed
  \/ WriteLands

SpecConflict == Init /\ [][NextConflict]_vars

\* The client of a request that has its close handlers attached and has
\* not been answered to the end goes away.
Disconnect ==
  \E r \in Reqs : reqs[r].onClose # {} /\ ~reqs[r].ended /\ ClientClose(r)

\* No pipeline is running.
Idle == \A p \in Reqs : pipes[p].proc # "running"

\* A start request and, once its run is over, a second one; the client of
\* either may disconnect.
NextClose ==
  \/ nextReq = 0 /\ StartArrive
  \/ nextReq = 1 /\ Settled /\ Idle /\ StartArrive
  \/ StartFresh({"audio"}, {Unknown})
  \/ StartOver
  \/ Engine({FALSE})
  \/ Killed
  \/ WriteLands
  \/ Disconnect

SpecClose == Init /\ [][NextClose]_vars

\* A start request whose client may disconnect, with an engine that ignores
\* SIGTERM, and the timers of the forcible kill.
NextGrace ==
  \/ nextReq = 0 /\ StartArrive
  \/ StartFresh({"audio"}, {Unknown})
  \/ Engine({FALSE})
  \/ Disconnect
  \/ \E p \in Reqs : GraceExpires(p)
  \/ WriteLands

SpecGrace == Init /\ [][NextGrace]_vars

\* Requests for an id that may be unknown: any first request, then a
\* delete, status or pause request, then a status, pause or resume request,
\* each at any time.
NextUnknown ==
  \/ nextReq = 0 /\ StartArrive
  \/ nextReq = 0 /\ StatusArrive
  \/ nextReq = 0 /\ PauseArrive
  \/ nextReq = 0 /\ ResumeArrive
  \/ nextReq = 1 /\ DeleteArrive
  \/ nextReq = 1 /\ StatusArrive
  \/ nextReq = 1 /\ PauseArrive
  \/ nextReq = 2 /\ StatusArrive
  \/ nextReq = 2 /\ PauseArrive
  \/ nextReq = 2 /\ ResumeArrive
  \/ StartFresh({"audio"}, {Unknown})
  \/ \E r \in Reqs : ResumeLoaded(r)
  \/ PauseRoute
  \/ DeleteRoute
  \/ StatusRoute
  \/ Engine({FALSE})
  \/ Killed
  \/ WriteLands

SpecUnknown == Init /\ [][NextUnknown]_vars

\* A start request whose client may disconnect, and a delete request sent
\* when no handler is between two awaits.
NextCancel ==
  \/ nextReq = 0 /\ StartArrive
  \/ nextReq = 1 /\ Quiet /\ DeleteArrive
  \/ StartFresh({"audio"}, {Unknown})
  \/ DeleteRoute
  \/ Engine({FALSE})
  \/ Killed
  \/ Disconnect
  \/ WriteLands

SpecCancel == Init /\ [][NextCancel]_vars

\* A start request, a pause and a resume, each sent when the server has
\* settled, with pipelines that may fail: the engine cannot be spawned, ends
\* with a non-zero code, or loses a source stream.  Handlers that can run
\* do run, writes land, and an engine that is fed or signalled ends.
Failure ==
  \/ Fails
  \/ \E p \in Reqs : EngineError(p)
  \/ \E p \in Reqs : SourceError(p)

NextFail ==
  \/ nextReq = 0 /\ StartArrive
  \/ nextReq = 1 /\ Settled /\ PauseArrive
  \/ nextReq = 2 /\ Settled /\ ResumeArrive
  \/ StartFresh({"audio"}, {Unknown})
  \/ PauseRoute
  \/ ResumeRoute
  \/ Engine({FALSE})
  \/ Killed
  \/ Failure
  \/ WriteLands

FairFail ==
  /\ WF_vars(StartFresh({"audio"}, {Unknown}))
  /\ WF_vars(PauseRoute)
  /\ WF_vars(ResumeRoute)
  /\ WF_vars(Engine({FALSE}))
  /\ WF_vars(Killed)
  /\ WF_vars(WriteLands)

SpecFail == Init /\ [][NextFail]_vars /\ FairFail

\* A start request and a second one once the first run is over, with the
\* reaper sweeping at any time.
NextSweep ==
  \/ nextReq = 0 /\ StartArrive
  \/ nextReq = 1 /\ Settled /\ Idle /\ StartArrive
  \/ StartFresh({"audio"}, {Unknown})
  \/ StartOver
  \/ Engine({FALSE})
  \/ Reaper
  \/ WriteLands

SpecSweep == Init /\ [][NextSweep]_vars

\* A start request and its run, with status queries at any time and the
\* record's writes seen in their two halves.
NextTorn ==
  \/ nextReq = 0 /\ StartArrive
  \/ nextReq \in 1..2 /\ StatusArrive
  \/ StartFresh({"audio"}, {Unknown})
  \/ StatusRoute
  \/ Engine({FALSE})
  \/ WriteOpens
  \/ WriteLands

SpecTorn == Init /\ [][NextTorn]_vars

\* A start request, a pause, then a resume or a second start for the same
\* id, each sent when the server has settled; the provider may report a
\* content length or none.
NextRestart ==
  \/ nextReq = 0 /\ StartArrive
  \/ nextReq = 1 /\ Settled /\ PauseArrive
  \/ nextReq = 2 /\ Settled /\ ResumeArrive
  \/ nextReq = 2 /\ Settled /\ StartArrive
  \/ StartFresh({"audio"}, {Unknown, MaxSrcLen})
  \/ StartOver
  \/ PauseRoute
  \/ ResumeRoute
  \/ Engine({FALSE})
  \/ Killed
  \/ WriteLands

SpecRestart == Init /\ [][NextRestart]_vars

\* A start request and two pause requests that arrive at any time.
NextPause ==
  \/ nextReq = 0 /\ StartArrive
  \/ nextReq \in 1..2 /\ PauseArrive
  \/ StartFresh({"audio"}, {Unknown})
  \/ PauseRoute
  \/ Engine({FALSE})
  \/ Killed
  \/ WriteLands

SpecPause == Init /\ [][NextPause]_vars

\* A start request whose client may disconnect, with the reaper sweeping at
\* any time.
NextOrphan ==
  \/ nextReq = 0 /\ StartArrive
  \/ StartFresh({"audio"}, {Unknown})
  \/ Engine({FALSE})
  \/ Killed
  \/ Reaper
  \/ Disconnect
  \/ WriteLands

SpecOrphan == Init /\ [][NextOrphan]_vars

\* A start request for a source of any reported size, and status queries
\* at any time.
NextProgress ==
  \/ nextReq = 0 /\ StartArrive
  \/ nextReq \in 1..2 /\ StatusArrive
  \/ StartFresh({"audio"}, SrcLens)
  \/ StatusRoute
  \/ Engine({FALSE})
  \/ WriteLands

SpecProgress == Init /\ [][NextProgress]_vars

\* A start request, then a delete request, with the reaper sweeping at any
\* time.
NextReap ==
  \/ nextReq = 0 /\ StartArrive
  \/ nextReq = 1 /\ Quiet /\ DeleteArrive
  \/ StartFresh({"audio"}, {Unknown})
  \/ DeleteRoute
  \/ Engine({FALSE})
  \/ Killed
  \/ Reaper
  \/ WriteLands

SpecReap == Init /\ [][NextReap]_vars

\* A start request and its run; SIGTERM or SIGINT reaches the server while
\* no handler is between two awaits, and nothing runs in a process that
\* has exited.
NextShutdown ==
  \/ nextReq = 0 /\ shutdown = "up" /\ StartArrive
  \/ shutdown # "exited" /\ StartFresh({"audio"}, {Unknown})
  \/ shutdown # "exited" /\ Engine({FALSE})
  \/ Killed
  \/ shutdown # "exited" /\ WriteLands
  \/ Quiet /\ SIGTERM
  \/ Quiet /\ SIGINT

SpecShutdown == Init /\ [][NextShutdown]_vars

\* One start request and its run, with no pause, cancel, disconnect or
\* failure, and an engine whose chunks may reach the tracker's highWaterMark.
NextDrain ==
  \/ nextReq = 0 /\ StartArrive
  \/ StartFresh({"audio"}, {Unknown})
  \/ Engine({FALSE, TRUE})
  \/ \E p \in Reqs : TrackerDrain(p)
  \/ Killed
  \/ WriteLands

SpecDrain == Init /\ [][NextDrain]_vars

\* ------------------------------------------------------------- claims
Done(r) == reqs[r].pc = "done"

\* C1: once a delete request has been answered, the record and the temp
\* file of the id are absent and stay absent, and a status query made after
\* it is answered 404.
C1_DeletedStaysDeleted ==
  /\ (\E d \in Reqs : reqs[d].kind = "delete" /\ Done(d))
       => (meta = NoRec /\ ~temp.exists)
  /\ \A r \in Reqs : (reqs[r].kind = "status" /\ Done(r)) => reqs[r].resp = 404

\* Request r is at the step of its handler that looks the id up in
\* activeDownloads: the start route after getFileSize found no bytes or after
\* the record was loaded, the resume route after the record was loaded.
AtConflictCheck(r) ==
  \/ reqs[r].kind = "start" /\ reqs[r].pc = "getFileSize" /\ getFileSize = 0
  \/ reqs[r].kind = "start" /\ reqs[r].pc = "loadMetadata"
  \/ reqs[r].kind = "resume" /\ reqs[r].pc = "loadMetadata"

\* The step of request r leaves the registry, the sessions, the pipelines,
\* the timers and the files as they are, and r holds no session.
NothingOpened(r) ==
  /\ reqs'[r].m = 0 /\ reqs'[r].onClose = {}
  /\ UNCHANGED <<shutdown, sweep, meta, temp, pending, instances, activeDownloads, timer, mgrs,
                 pipes, nextMgr>>

RejectCode(r) ==
  IF reqs[r].pc = "loadMetadata" /\ meta = NoRec THEN 404
  ELSE IF reqs[r].kind = "resume" /\ meta.status # "paused" THEN 400
  ELSE 409

Live(p) == pipes[p].proc = "running" /\ ~pipes[p].signalled

\* C3: under every interleaving of start requests for the id, at most one
\* pipeline is live at a time.
C3_OnePipelineLive == Cardinality({p \in Reqs : Live(p)}) <= 1

\* Request r streamed a pipeline whose engine exited with code 0, and its
\* response was ended while the client was still connected.
Completed(r) ==
  /\ pipes[r].proc = "exited" /\ pipes[r].code = 0 /\ pipes[r].exitH = "done"
  /\ pipes[r].trk = "ended"
  /\ reqs[r].ended /\ ~reqs[r].closed

Paused == \E q \in Reqs : reqs[q].kind = "pause" /\ reqs[q].resp = 200

\* C4: a download that was paused and then resumed to completion delivers
\* to the resuming client exactly the engine's output O.
C4_ResumedStreamIsO ==
  \A r \in Reqs :
    (Paused /\ pipes[r].kind = "resume" /\ Completed(r)) => reqs[r].sink = O

\* C5: on every resume over a non-empty temp file, through the resume route
\* or the start route, the client has been sent the file's bytes before it
\* is sent any byte of the new engine run.
C5_ReplayedFirst ==
  \A r \in Reqs :
    (pipes[r].kind = "resume" /\ pipes[r].existingSize > 0 /\ reqs[r].sink # <<>>)
      => reqs[r].replayed >= pipes[r].existingSize

\* C6: once the client of a request whose session is registered has
\* disconnected, an engine process running for that request has been
\* signalled to terminate and its source streams and temp file handle are
\* closed.
C6_DisconnectReleases ==
  \A r \in Reqs :
    (reqs[r].closed /\ reqs[r].heard # {} /\ pipes[r].proc = "running")
      => (pipes[r].signalled /\ ~pipes[r].streamsOpen /\ ~pipes[r].hOpen)

\* C7: the currentSize values that reach the persisted record while its
\* status is in progress never decrease.
C7_ProgressNonDecreasing ==
  [][(meta.status = "in progress" /\ meta'.status = "in progress")
       => meta'.currentSize >= meta.currentSize]_vars

\* C8: a start request whose url is missing or invalid is answered 400 in
\* the step in which it arrives; that step adds no session, no registry
\* entry, no timer, no record and no temp file, and the request never holds
\* a session or a pipeline afterwards.
C8_InvalidUrlRejected ==
  /\ [](\A r \in Reqs :
          ~reqs[r].urlOk => /\ Done(r) /\ reqs[r].resp = 400
                            /\ reqs[r].m = 0 /\ pipes[r] = NoPipe)
  /\ [][\A r \in Reqs :
          (reqs[r] = NoReq /\ ~reqs'[r].urlOk)
            => UNCHANGED <<shutdown, sweep, meta, temp, pending, instances, activeDownloads,
                           timer, mgrs, pipes, nextMgr>>]_vars

\* An invalid start request was answered 400 while an earlier request of
\* the id is streaming.
C8_InvalidRefused ==
  \E r \in Reqs, p \in Reqs :
    /\ reqs[r].kind = "start" /\ ~reqs[r].urlOk /\ reqs[r].resp = 400
    /\ pipes[p].proc = "running" /\ activeDownloads # 0

\* The run of request r is over: its engine exited with code 0, the exit
\* and end handlers have finished and every metadata write has landed.
RunOver(r) ==
  /\ pipes[r].proc = "exited" /\ pipes[r].code = 0
  /\ pipes[r].exitH = "done" /\ pipes[r].endH = "done"
  /\ pending = {}

\* C9: after an uninterrupted run whose engine exited with code 0 the
\* persisted status is completed, and no earlier write overwrites it.
C9_CompletedIsFinal ==
  \A r \in Reqs : RunOver(r) => meta.status = "completed"

\* C10: after an uninterrupted run has completed, the persisted currentSize
\* equals the persisted totalSize (stated for a run whose size estimate is
\* known).
C10_CurrentEqualsTotal ==
  \A r \in Reqs :
    (RunOver(r) /\ meta.status = "completed" /\ meta.totalSize # Unknown)
      => meta.currentSize = meta.totalSize

\* The pause request r was answered with success after pause() had acted on
\* its manager, no engine has ended with code 0, and no request has arrived
\* since.
PausedRunning(r) ==
  /\ reqs[r].kind = "pause" /\ reqs[r].resp = 200
  /\ nextReq = r
  /\ mgrs[reqs[r].m].isPaused
  /\ \A p \in Reqs : ~(pipes[p].proc \in {"dead", "exited"} /\ pipes[p].code = 0)

\* C11: once a pause request for a running download has been answered with
\* success, the record reads paused with currentSize the size of the temp
\* file, both files are kept, the session is unregistered, and no later
\* write of the paused pipeline changes the status.
C11_PauseIsPersisted ==
  \A r \in Reqs :
    PausedRunning(r)
      => /\ meta.status = "paused"
         /\ temp.exists /\ meta.currentSize = Len(temp.bytes)
         /\ instances = 0 /\ activeDownloads = 0

\* C12: a resume of a paused download persists status in progress before
\* any byte is streamed to the caller: once the resuming request has been
\* sent a byte the record no longer reads paused.
C12_ResumePersistsRunning ==
  \A r \in Reqs :
    (Paused /\ pipes[r].kind = "resume" /\ reqs[r].sink # <<>>)
      => meta.status # "paused"

\* The pipeline of a resume is running, not signalled, and its session is
\* the registered active one.
ResumedRunning ==
  \E p \in Reqs :
    /\ pipes[p].kind = "resume" /\ Live(p)
    /\ activeDownloads # 0 /\ pipes[p].mgr = activeDownloads

\* C13: a download that was paused and resumed and is running again accepts
\* a further pause: the pause request that reaches its record check then is
\* not refused.
C13_PauseAfterResume ==
  [][\A r \in Reqs :
       (/\ Paused /\ ResumedRunning
        /\ reqs[r].kind = "pause" /\ reqs[r].pc = "loadMetadata"
        /\ reqs'[r] # reqs[r])
         => reqs'[r].resp \notin {400, 404}]_vars

\* cleanup() has already released what manager m held: m built a pipeline
\* and its fields are cleared.
Cleaned(m) == m # 0 /\ mgrs[m].res = 0 /\ \E p \in Reqs : pipes[p].mgr = m

\* The registry and every pipeline's resources are as they were.
NothingReleased ==
  /\ instances' = instances /\ activeDownloads' = activeDownloads
  /\ \A q \in Reqs : /\ pipes'[q].signalled = pipes[q].signalled
                      /\ pipes'[q].streamsOpen = pipes[q].streamsOpen
                      /\ pipes'[q].hOpen = pipes[q].hOpen

\* C14: a cleanup() invocation on a session whose resources an earlier
\* invocation has released changes nothing: taken here at the tracker's
\* finish/close handlers, at complete() in the exit handler and at the
\* cancel() of a client disconnect.
C14_CleanupIdempotent ==
  [][\A p \in Reqs :
       (/\ Cleaned(pipes[p].mgr)
        /\ \/ pipes[p].trk = "open" /\ pipes'[p].trk = "ended"
           \/ pipes[p].exitH = "save" /\ pipes'[p].exitH = "done"
           \/ /\ ~reqs[p].closed /\ reqs'[p].closed
              /\ reqs[p].onClose = {"closure"} /\ reqs[p].m = pipes[p].mgr)
         => NothingReleased]_vars

\* C15: when the grace period after cleanup's SIGTERM ends and the engine
\* process has not terminated, the process is sent SIGKILL.
C15_ForcedKillAfterGrace ==
  [][\A p \in Reqs :
       (/\ pipes[p].grace = "armed" /\ pipes'[p].grace = "fired"
        /\ pipes[p].proc = "running")
         => pipes'[p].sigkill]_vars

\* Request r is a status, pause or resume request.
Query(q) == q.kind \in {"status", "pause", "resume"}

\* C16: a status, pause or resume request that finds no record is answered
\* 404, and neither its arrival nor its answer creates or changes a record,
\* a temp file, a registry entry, a session or a timer.
C16_UnknownIdNotFound ==
  [][\A r \in Reqs :
       /\ (/\ Query(reqs[r]) /\ reqs[r].pc = "loadMetadata"
           /\ meta = NoRec /\ reqs'[r] # reqs[r])
            => (Done(r)' /\ reqs'[r].resp = 404 /\ NothingOpened(r))
       /\ (reqs[r] = NoReq /\ Query(reqs'[r]) /\ meta = NoRec)
            => (/\ reqs'[r].pc = "loadMetadata" \/ reqs'[r].resp = 404
                /\ NothingOpened(r))]_vars

\* A status, a pause and a resume request for an id that is unknown were
\* each answered 404 and nothing exists for the id.
C16_UnknownRefused ==
  /\ \A k \in {"status", "pause", "resume"} :
       \E r \in Reqs : reqs[r].kind = k /\ reqs[r].resp = 404
  /\ meta = NoRec /\ ~temp.exists
  /\ instances = 0 /\ activeDownloads = 0 /\ ~timer /\ nextMgr = 0

\* This step is the delete route calling cancel() for request r, the delete
\* route answering request r, or the connection of request r closing with a
\* handler attached that calls cancel().
DeleteCancels(r) ==
  reqs[r].kind = "delete" /\ reqs[r].pc = "loadMetadata" /\ reqs'[r].pc = "unlink"

DeleteAnswers(r) ==
  reqs[r].kind = "delete" /\ reqs[r].pc = "unlink" /\ Done(r)'

DisconnectCancels(r) ==
  /\ ~reqs[r].closed /\ reqs'[r].closed
  /\ "closure" \in reqs[r].onClose \/ ("lookup" \in reqs[r].onClose /\ activeDownloads # 0)

Unregistered == instances = 0 /\ activeDownloads = 0

C18_CheckpointIsFileSize ==
  [][\A w \in pending' \ pending : w.rec.currentSize = Len(temp'.bytes)]_vars

IsPrefix(a, b) == Len(a) <= Len(b) /\ \A i \in 1..Len(a) : a[i] = b[i]

\* C19: at every point the temp file holds a prefix of the engine's output
\* O, in emission order (and so equals O after a paused and resumed download
\* has completed).
C19_TempIsPrefixOfO == temp.exists => IsPrefix(temp.bytes, O)

\* What is left of sequence a after its first n elements.
Drop(a, n) == [i \in 1..(Len(a) - n) |-> a[n + i]]

\* Pipeline p is running for a connected client, and its tracker is
\* forwarding chunks.
Forwarding(p) ==
  /\ pipes[p].proc = "running" /\ pipes[p].trk = "open"
  /\ ~reqs[p].closed /\ ~reqs[p].ended
  /\ ~mgrs[pipes[p].mgr].isPaused /\ ~mgrs[pipes[p].mgr].isCancelled

\* C20: within one pipeline attempt the chunks sent to the client are the
\* chunks appended to the temp file, in the same order and with no chunk of
\* another attempt among them: what the file holds after the bytes it had
\* when the attempt opened it is what the client was sent after the
\* replayed bytes.
C20_SinkMatchesTemp ==
  \A p \in Reqs :
    (Forwarding(p) /\ temp.exists /\ Len(temp.bytes) >= pipes[p].base)
      => Drop(temp.bytes, pipes[p].base) = Drop(reqs[p].sink, reqs[p].replayed)

\* The pipeline of request p has met a failure trigger.
Failed(p) == pipes[p].failure # "none"

\* The session of pipeline p is out of both registry maps and the pipeline's
\* source streams, temp file handle and engine process are released.
TornDown(p) ==
  /\ instances # pipes[p].mgr
  /\ activeDownloads # pipes[p].mgr
  /\ ~pipes[p].streamsOpen
  /\ ~pipes[p].hOpen
  /\ pipes[p].proc # "running" \/ pipes[p].signalled

\* C21: a non-zero engine exit, an engine spawn error or a source stream
\* error, in the fresh and in the resume pipeline, leads to the session being
\* removed from the registry and its engine, source streams and temp file
\* handle being released.
C21_FailureLeadsToCleanup == \A p \in Reqs : Failed(p) ~> TornDown(p)

\* The engine of pipeline p could not be spawned or ended with a non-zero
\* code by itself.
EngineFailed(p) == pipes[p].failure \in {"spawn", "exit"}

\* C22: when the engine fails to spawn or exits non-zero, the response is
\* brought to an end, and with an error status when nothing of it had been
\* sent yet: a response that ends after the engine's failure without having
\* begun carries an error status.
C22_EngineFailureSurfaced ==
  [][\A p \in Reqs :
       (EngineFailed(p) /\ ~reqs[p].headersSent /\ ~reqs[p].ended /\ reqs'[p].ended)
         => reqs'[p].resp >= 400]_vars

\* C23: the reaper timer of the id is cancelled when the id's session ends
\* (pause, cancel, completion or failure): no live timer exists while no
\* session is registered under the id.
C23_NoTimerWithoutSession == instances = 0 => ~timer

\* What a sweep leaves alone when it finds nothing to evict.
Kept == <<meta, temp, pending, instances, activeDownloads, timer, mgrs, pipes, reqs>>

\* The engine, source streams and temp file handle of every pipeline.
Running == [p \in Reqs |-> <<pipes[p].proc, pipes[p].signalled,
                             pipes[p].streamsOpen, pipes[p].hOpen>>]

C25_StatusNeverTorn ==
  [][\A r \in Reqs :
       (/\ reqs[r].kind = "status" /\ reqs[r].pc = "loadMetadata"
        /\ reqs'[r] # reqs[r] /\ meta # NoRec /\ activeDownloads # 0)
         => (reqs'[r].resp # 404 /\ reqs'[r].md = meta /\ meta # Torn)]_vars

\* The session of pipeline p is out of both maps and holds no stream, file
\* handle or process any more.
ReleasedSession(p) ==
  /\ instances = 0 /\ activeDownloads = 0
  /\ mgrs[pipes[p].mgr].res = 0
  /\ ~pipes[p].streamsOpen /\ ~pipes[p].hOpen

\* C26: once a session has completed on a clean engine exit it is out of the
\* registry and its resources are released, while the record, with status
\* completed, and the temp file remain on disk.
C26_CompletedKeepsArtifacts ==
  \A r \in Reqs :
    RunOver(r) => /\ ReleasedSession(r)
                  /\ meta.status = "completed"
                  /\ temp.exists

\* C27: once the record has been created with a known totalSize, that
\* totalSize does not change while the record exists, whatever operation
\* writes the record.
C27_TotalSizeImmutable ==
  [][(meta # NoRec /\ meta.totalSize # Unknown /\ meta' # NoRec)
       => meta'.totalSize = meta.totalSize]_vars

\* The start request r has computed its size estimate and built a new
\* record from it.
Estimated(r) ==
  reqs[r].kind = "start" /\ reqs[r].pc = "save" /\ reqs[r].existingSize = 0

\* C28: the size estimate of a video request is the sum of the video and
\* audio content lengths when both are known and unknown when either is
\* unknown (not the known part alone); that of an audio request is the
\* audio length, unknown when that is unknown.
C28_EstimateUnknownUnlessAllKnown ==
  \A r \in Reqs :
    Estimated(r)
      => reqs[r].md.totalSize =
           IF reqs[r].type = "video"
           THEN IF reqs[r].videoSize # Unknown /\ reqs[r].audioSize # Unknown
                THEN reqs[r].videoSize + reqs[r].audioSize
                ELSE Unknown
           ELSE reqs[r].audioSize

\* What pause() could change of a manager (currentSize is set by the route
\* before it calls pause()).
Session(m) ==
  <<mgrs[m].isPaused, mgrs[m].isCompleted, mgrs[m].isCancelled, mgrs[m].res,
    mgrs[m].metadata>>

\* The pause request r is about to call pause() on a manager that is
\* already paused or completed.
PausesAgain(r) ==
  /\ reqs[r].kind = "pause" /\ reqs[r].pc = "getFileSize"
  /\ mgrs[reqs[r].m].isPaused \/ mgrs[reqs[r].m].isCompleted

\* C29: pause() on a session that is already paused, or completed, writes
\* nothing, tears nothing down and changes no state: the record, the
\* artifacts, the registry and the session are as they were.
C29_PauseIdempotent ==
  [][\A r \in Reqs :
       (PausesAgain(r) /\ reqs'[r] # reqs[r])
         => /\ pending' = pending /\ meta' = meta /\ temp' = temp
            /\ instances' = instances /\ activeDownloads' = activeDownloads
            /\ pipes' = pipes
            /\ \A m \in Mgrs : Session(m)' = Session(m)]_vars

\* Two pause requests were answered with success for the same session,
\* which was paused once: one record write, by the first of them.
C29_PausedTwice ==
  /\ reqs[2].kind = "pause" /\ reqs[2].resp = 200
  /\ reqs[3].kind = "pause" /\ reqs[3].resp = 200
  /\ reqs[2].m = reqs[3].m
  /\ mgrs[reqs[2].m].isPaused
  /\ instances = 0 /\ meta.status = "paused"

\* C30: a cleanup() made by a session object that was already torn down
\* never removes a newer session registered under the id: a session whose
\* pipeline is live and whose resources have not been released is still the
\* one registered.
C30_StaleCleanupSparesNewer ==
  \A p \in Reqs :
    (Live(p) /\ mgrs[pipes[p].mgr].res = p) => instances = pipes[p].mgr

\* C31: cleanup() releases what a session holds even when the session is no
\* longer in the registry: a disconnect heard for a session that is not
\* registered any more and still holds its pipeline closes the source
\* streams and the temp file handle and signals a running engine.
C31_CleanupReleasesUnregistered ==
  [][\A r \in Reqs :
       (/\ ~reqs[r].closed /\ reqs'[r].closed /\ reqs'[r].heard # {}
        /\ instances # reqs[r].m /\ mgrs[reqs[r].m].res = r)
         => /\ ~pipes'[r].streamsOpen /\ ~pipes'[r].hOpen
            /\ pipes'[r].proc = "running" => pipes'[r].signalled]_vars

\* C32: when the engine has exited with code 0 and the completion path has
\* run (complete() has released the session), every byte of the engine's
\* output has been sent to the client and written to the temp file.
C32_CompletionKeepsTail ==
  \A p \in Reqs :
    (/\ pipes[p].kind = "fresh" /\ pipes[p].proc = "exited"
     /\ pipes[p].code = 0 /\ pipes[p].exitH = "done")
      => (reqs[p].sink = O /\ temp.bytes = O)

\* C33: the tracker's transform never writes a chunk through a released
\* temp file handle: whenever it takes a chunk that it does not drop, the
\* session's tempFileStream is set.
C33_NoChunkOnReleasedHandle ==
  [][\A p \in Reqs :
       (/\ pipes'[p].consumed > pipes[p].consumed
        /\ ~mgrs[pipes[p].mgr].isPaused /\ ~mgrs[pipes[p].mgr].isCancelled)
         => mgrs[pipes[p].mgr].res # 0]_vars

\* C34: with no pause, cancel, disconnect or error, a session whose engine
\* is still running is not torn down: the tracker's drain event leaves
\* the engine unsignalled and the source streams and temp file handle open.
C34_DrainLeavesSessionRunning ==
  \A p \in Reqs :
    pipes[p].proc = "running"
      => (~pipes[p].signalled /\ pipes[p].streamsOpen /\ pipes[p].hOpen)

\* C35: the two registries agree in every reachable state: activeDownloads
\* and DownloadManager.instances hold the same manager for the id, or
\* neither holds one.
C35_RegistriesAgree == instances = activeDownloads

\* C36: whenever the persisted record reads in progress and no handler is
\* mid-flight, a session for the id is registered.
C36_InProgressHasSession ==
  (Settled /\ meta # NoRec /\ meta # Torn /\ meta.status = "in progress")
    => instances # 0

\* Every pipeline that was built has run to its end, and no write of a
\* pipeline is in flight.
RunsOver ==
  /\ \A p \in Reqs :
        \/ pipes[p].proc = "none"
        \/ /\ pipes[p].proc = "exited" /\ pipes[p].trk # "open"
           /\ pipes[p].exitH # "save" /\ pipes[p].endH # "save"
  /\ \A w \in pending : w.owner[1] = "req"

\* C37: once the record reads completed, the run is over and the temp file
\* holds the whole output, no step (of a later start request in particular)
\* takes the status away from completed or changes the bytes of the temp
\* file.
C37_CompletedStaysCompleted ==
  [][(meta.status = "completed" /\ RunsOver /\ temp.bytes = O)
       => (meta'.status = "completed" /\ temp'.bytes = temp.bytes)]_vars

\* C38: once the process has exited on a signal, the registry is empty and
\* no engine is left running without having been signalled, and no source
\* stream or temp file handle of a running pipeline was left open.
C38_ShutdownReleasesSessions ==
  shutdown = "exited"
    => /\ instances = 0 /\ activeDownloads = 0
       /\ \A p \in Reqs :
            pipes[p].proc = "running"
              => (pipes[p].signalled /\ ~pipes[p].streamsOpen /\ ~pipes[p].hOpen)

\* C39: a sweep that finds no record for the id stops the id's timer.
C39_SweepWithoutRecordStopsTimer ==
  [][(sweep.pc = "load" /\ sweep'.pc # "load" /\ loadDownloadMetadata = NoRec)
       => ~timer']_vars

\* C40: the percentage of every status reply is an integer in 0..100, and
\* is 0 when the stored totalSize is unknown or zero.
C40_ProgressIsPercentage ==
  \A r \in Reqs :
    (reqs[r].kind = "status" /\ reqs[r].resp = 200)
      => /\ reqs[r].progress \in 0..100
         /\ reqs[r].md.totalSize = 0 => reqs[r].progress = 0

====
